---- MODULE Spec2Model ----
(***************************************************************************)
(* Call-signature resolution of kernelfunctions: the BoundVariable tree    *)
(* (core/boundvariable.py), the phases CallData.__init__ runs over it      *)
(* (calldata.py) and the call-data cache of FunctionChainBase              *)
(* (function.py).                                                          *)
(***************************************************************************)
EXTENDS Integers, Sequences, FiniteSets, TLC

VARIABLES
    python,          \* node -> PythonVariable (host side) fields
    slang,           \* node -> SlangVariable (kernel side) fields
    bound,           \* node -> BoundVariable fields (access, differentiable, call_dimensionality)
    bindings,        \* the nodes of the BoundCall (args and kwargs, with their children)
    context,         \* BindContext: call_mode, call_dimensionality
    pc,              \* position of the CallData construction that owns the tree
    CALL_DATA_CACHE, \* signature -> CallData object
    calldata,        \* CallData object -> the fields set by its constructor
    function,        \* chain[0], the head of every chain: a Function unless a caller builds
                     \* the chain by hand
    tpc,             \* thread -> position inside _build_call_data
    tcall,           \* thread -> the call being served (chain, args, signature)
    tres,            \* thread -> what the last _build_call_data returned or raised
    started,         \* signature -> number of CallData constructions started for it
    built,           \* signature -> the object the first successful call returned
    ncalls,          \* number of _build_call_data calls made
    log,             \* the finished calls, in order: what was asked and what came back
    trace,           \* the phases the CallData construction has run, in order
    cg,              \* CodeGen: what generate_code has emitted
    error,           \* the exception the constructor raised to its caller
    self,            \* the CallData under construction: kernel and runtime
    index,           \* a transform and the subscript generated from it
    dispatch         \* a call of the kernel: the shapes of the arguments, the call
                     \* shape and the elements one thread reads

vars == <<python, slang, bound, bindings, context, pc, CALL_DATA_CACHE, calldata,
          function, tpc, tcall, tres, started, built, ncalls, log,
          trace, cg, error, self, index, dispatch>>

treeVars == <<python, slang, bound, bindings, context, pc>>
cacheVars == <<CALL_DATA_CACHE, calldata, function, tpc, tcall, tres, started, built, ncalls,
              log>>
genVars == <<cg, error, self, index, dispatch>>

-----------------------------------------------------------------------------
(* Bounds *)

\* Largest number of dimensions of a host container or of an explicit mapping.
MaxDim == 2

\* Number of _build_call_data calls a behaviour makes.
MaxCalls == 2

-----------------------------------------------------------------------------
(* Enumerations and the shape of the binding tree *)

AccessType == {"none", "read", "write", "readwrite"}
IOType == {"inn", "out", "inout"}
CallMode == {"prim", "bwds", "fwds"}

\* BoundVariable.call_dimensionality before it is computed.
None == -1

\* The tree: argument "a" is composite with one field "x"; "b" and "_result"
\* are leaves; "_result" is a keyword argument present only in some calls.
Nodes == 1..4
ResultNode == 4

path(n) == CASE n = 1 -> "a" [] n = 2 -> "a.x" [] n = 3 -> "b" [] OTHER -> "_result"

children(n) == IF n = 1 THEN {2} ELSE {}

depth(n) == IF n = 2 THEN 1 ELSE 0

IsLeaf(n) == children(n) = {}

\* Order in which BoundCall.apply_implicit_vectorization and finalize_mappings
\* reach the nodes: args before kwargs, the children of a node before the node.
VisitOrder == <<2, 1, 3, 4>>

Position(n) == CHOOSE i \in 1..Len(VisitOrder) : VisitOrder[i] = n

-----------------------------------------------------------------------------
(* Host types *)

NoType == [tag |-> "None", arg |-> 0]
RaisedType == [tag |-> "raise", arg |-> 0]
RaisedDim == -2

BufferKinds == {"StructuredBufferType", "ByteAddressBufferType"}

\* BaseType.reduce_type: the host type with its leading `dimensions` container
\* dimensions removed.
reduce_type(primal, dimensions) == [tag |-> "reduced", arg |-> dimensions]

\* StructuredBufferType.resolve_type raises unless the kernel type is a raw
\* buffer; the other host types reconcile themselves with the kernel type.
resolve_type(primal, bound_type) ==
    IF primal.kind = "StructuredBuffer"
    THEN IF bound_type \in BufferKinds
         THEN [tag |-> bound_type, arg |-> 0]
         ELSE RaisedType
    ELSE [tag |-> bound_type, arg |-> 0]

\* StructuredBufferType.resolve_dimensionality is 0 or raises; the other host
\* types report the number of container dimensions they need.
resolve_dimensionality(primal, vector_target_type) ==
    IF primal.kind = "StructuredBuffer"
    THEN IF vector_target_type.tag \in BufferKinds THEN 0 ELSE RaisedDim
    ELSE primal.rank

\* The kernel-side primal type as a vector type (self.slang.primal).
slang_primal(sl) == [tag |-> sl.primal, arg |-> 0]

-----------------------------------------------------------------------------
(* BoundVariable._apply_implicit_vectorization *)

RECURSIVE max_of(_)
max_of(s) ==
    IF Len(s) = 1 THEN s[1]
    ELSE LET m == max_of(Tail(s)) IN IF s[1] > m THEN s[1] ELSE m

\* Mutant: the length of the mapping instead of its largest entry plus one.
mapped_dimensionality_len(vector_mapping) == Len(vector_mapping.dims)

\* Lines 138-143: the dimensionality of a node with a valid mapping.
mapped_dimensionality(vector_mapping) ==
    IF Len(vector_mapping.dims) > 0
    THEN max_of(vector_mapping.dims) + 1
    ELSE 0

\* The result is the node's new vector_type and call_dimensionality and whether
\* the method raised (in which case nothing after the raising line is stored).
_apply_implicit_vectorization(py, sl, p) ==
    LET vt1 == IF py.vector_mapping.valid
               THEN reduce_type(py.primal, Len(py.vector_mapping.dims))
               ELSE py.vector_type
        vt2 == IF vt1 # NoType THEN vt1
               ELSE IF p = "_result" THEN vt1
               ELSE resolve_type(py.primal, sl.primal)
        vt3 == IF ~py.vector_mapping.valid /\ vt2 = NoType THEN slang_primal(sl) ELSE vt2
        cd  == IF py.vector_mapping.valid
               THEN mapped_dimensionality(py.vector_mapping)
               ELSE resolve_dimensionality(py.primal, vt3)
    IN  IF vt2 = RaisedType
        THEN [vector_type |-> py.vector_type, call_dimensionality |-> None, raised |-> TRUE]
        ELSE IF cd = RaisedDim
        THEN [vector_type |-> vt3, call_dimensionality |-> None, raised |-> TRUE]
        ELSE [vector_type |-> vt3, call_dimensionality |-> cd, raised |-> FALSE]

\* BoundCall.apply_implicit_vectorization over the whole call: the nodes are
\* visited in VisitOrder and the first one that raises ends the phase.
apply_implicit_vectorization(py, sl, bnd, nodes) ==
    LET r == [n \in Nodes |-> _apply_implicit_vectorization(py[n], sl[n], path(n))]
        failing == {Position(n) : n \in {m \in nodes : r[m].raised}}
        stop == IF failing = {} THEN Len(VisitOrder) + 1
                ELSE CHOOSE i \in failing : \A j \in failing : i <= j
    IN  [python |-> [n \in Nodes |->
                        IF n \in nodes /\ Position(n) <= stop
                        THEN [py[n] EXCEPT !.vector_type = r[n].vector_type]
                        ELSE py[n]],
         bound |-> [n \in Nodes |->
                        IF n \in nodes /\ Position(n) < stop
                        THEN [bnd[n] EXCEPT !.call_dimensionality = r[n].call_dimensionality]
                        ELSE bnd[n]],
         raised |-> failing # {},
         failed |-> IF failing = {} THEN 0 ELSE VisitOrder[stop]]

-----------------------------------------------------------------------------
(* calculate_call_dimensionality: the largest dimensionality among the     *)
(* nodes get_input_list collects, which are the leaves.                    *)

get_input_list(nodes) == {n \in nodes : IsLeaf(n)}

calculate_call_dimensionality(bnd, nodes) ==
    LET ds == {bnd[n].call_dimensionality : n \in get_input_list(nodes)} \cup {0}
    IN  CHOOSE d \in ds : \A e \in ds : e <= d

-----------------------------------------------------------------------------
(* BoundVariable._finalize_mappings *)

RECURSIVE reverse(_)
reverse(s) == IF s = <<>> THEN <<>> ELSE Append(reverse(Tail(s)), s[1])

\* Mutant: the m.reverse() of line 166 is missing.
default_mapping_unreversed(k, D) == [i \in 1..k |-> D - (i - 1) - 1]

\* Mutant: line 165 appends D - i.
default_mapping_shifted(k, D) == reverse([i \in 1..k |-> D - (i - 1)])

\* Lines 163-167: for i in range(k): m.append(D - i - 1); m.reverse().
default_mapping(k, D) == reverse([i \in 1..k |-> D - (i - 1) - 1])

\* Mutant: the default mapping is stored whether or not the node has one.
_finalize_mappings_always_default(py, bnd, D) ==
    LET cd == IF bnd.call_dimensionality = None THEN D ELSE bnd.call_dimensionality
    IN  [python |-> [py EXCEPT !.vector_mapping =
                        [valid |-> TRUE, dims |-> default_mapping(cd, D)]],
         bound |-> [bnd EXCEPT !.call_dimensionality = cd]]

\* Mutant: a node that needs no dimension is left without a mapping.
_finalize_mappings_skips_empty(py, bnd, D) ==
    LET cd == IF bnd.call_dimensionality = None THEN D ELSE bnd.call_dimensionality
    IN  [python |-> IF ~py.vector_mapping.valid /\ cd > 0
                    THEN [py EXCEPT !.vector_mapping =
                                [valid |-> TRUE, dims |-> default_mapping(cd, D)]]
                    ELSE py,
         bound |-> [bnd EXCEPT !.call_dimensionality = cd]]

\* Lines 158-167.
_finalize_mappings(py, bnd, D) ==
    LET cd == IF bnd.call_dimensionality = None THEN D ELSE bnd.call_dimensionality
    IN  [python |-> IF ~py.vector_mapping.valid
                    THEN [py EXCEPT !.vector_mapping =
                                [valid |-> TRUE, dims |-> default_mapping(cd, D)]]
                    ELSE py,
         bound |-> [bnd EXCEPT !.call_dimensionality = cd]]

finalize_mappings(py, bnd, nodes, D) ==
    [python |-> [n \in Nodes |-> IF n \in nodes
                                 THEN _finalize_mappings(py[n], bnd[n], D).python
                                 ELSE py[n]],
     bound |-> [n \in Nodes |-> IF n \in nodes
                                THEN _finalize_mappings(py[n], bnd[n], D).bound
                                ELSE bnd[n]]]

-----------------------------------------------------------------------------
(* BoundVariable.calculate_differentiability *)

\* Mutant: in a backward call a differentiable out parameter also gets its
\* primal written.
_calculate_differentiability_bwds_out(mode, differentiable, io_type) ==
    IF mode = "prim" THEN
        IF io_type = "inout" THEN <<"readwrite", "none">>
        ELSE IF io_type = "out" THEN <<"write", "none">>
        ELSE <<"read", "none">>
    ELSE IF mode = "bwds" THEN
        IF differentiable THEN
            IF io_type = "inout" THEN <<"read", "readwrite">>
            ELSE IF io_type = "out" THEN <<"write", "read">>
            ELSE <<"read", "write">>
        ELSE
            IF io_type = "inout" THEN <<"read", "none">>
            ELSE IF io_type = "out" THEN <<"none", "none">>
            ELSE <<"read", "none">>
    ELSE <<"none", "none">>

\* Mutant: the backward rows do not look at the differentiable flag.
_calculate_differentiability_ignores_flag(mode, differentiable, io_type) ==
    IF mode = "prim" THEN
        IF io_type = "inout" THEN <<"readwrite", "none">>
        ELSE IF io_type = "out" THEN <<"write", "none">>
        ELSE <<"read", "none">>
    ELSE IF mode = "bwds" THEN
        IF io_type = "inout" THEN <<"read", "readwrite">>
        ELSE IF io_type = "out" THEN <<"none", "read">>
        ELSE <<"read", "write">>
    ELSE <<"none", "none">>

\* Lines 202-238: the access pair <<primal, derivative>>.
_calculate_differentiability(mode, differentiable, io_type) ==
    IF mode = "prim" THEN
        IF differentiable THEN
            IF io_type = "inout" THEN <<"readwrite", "none">>
            ELSE IF io_type = "out" THEN <<"write", "none">>
            ELSE <<"read", "none">>
        ELSE
            IF io_type = "inout" THEN <<"readwrite", "none">>
            ELSE IF io_type = "out" THEN <<"write", "none">>
            ELSE <<"read", "none">>
    ELSE IF mode = "bwds" THEN
        IF differentiable THEN
            IF io_type = "inout" THEN <<"read", "readwrite">>
            ELSE IF io_type = "out" THEN <<"none", "read">>
            ELSE <<"read", "write">>
        ELSE
            IF io_type = "inout" THEN <<"read", "none">>
            ELSE IF io_type = "out" THEN <<"none", "none">>
            ELSE <<"read", "none">>
    ELSE <<"none", "none">>

\* Mutant: the test for a derivative type on the kernel side is missing.
is_differentiable_no_derivative_test(py, sl) == ~sl.no_diff /\ py.differentiable

\* Line 175.
is_differentiable(py, sl) == ~sl.no_diff /\ sl.derivative /\ py.differentiable

\* Lines 169-180 over the nodes of `todo` (a node, then its children).
RECURSIVE calculate_differentiability(_, _, _, _, _)
calculate_differentiability(py, sl, bnd, todo, mode) ==
    IF todo = <<>> THEN bnd
    ELSE LET n == todo[1]
             d == is_differentiable(py[n], sl[n])
             b == [bnd EXCEPT ![n].differentiable = d,
                              ![n].access = _calculate_differentiability(mode, d, sl[n].io_type)]
         IN  calculate_differentiability(py, sl, b, Tail(todo), mode)

\* Order of calculate_differentiability: a node, then its children.
DiffOrder == <<1, 2, 3, 4>>

RECURSIVE restrict(_, _)
restrict(order, nodes) ==
    IF order = <<>> THEN <<>>
    ELSE IF order[1] \in nodes THEN <<order[1]>> \o restrict(Tail(order), nodes)
    ELSE restrict(Tail(order), nodes)

-----------------------------------------------------------------------------
(* The state of a BoundVariable tree right after bind()                    *)

\* BoundVariable.__init__, lines 74-76.
NewBound == [access |-> <<"none", "none">>, differentiable |-> FALSE,
             call_dimensionality |-> None]

Invalid == [valid |-> FALSE, dims |-> <<>>]

IsInjective(s) == \A i, j \in 1..Len(s) : i # j => s[i] # s[j]

\* Explicit mappings: each local dimension goes to a different call dimension.
Mappings ==
    {s \in UNION {[1..k -> 0..(MaxDim - 1)] : k \in 0..MaxDim} : IsInjective(s)}

\* The fields of a node that has none (python.fields is None) and of a
\* composite with the given field names.
NoFields == [composite |-> FALSE, names |-> {}]

Fields(names) == [composite |-> TRUE, names |-> names]

HostValue(kind, rank, mapping, vtype) ==
    [primal |-> [kind |-> kind, rank |-> rank], vector_mapping |-> mapping,
     vector_type |-> vtype, differentiable |-> TRUE, writable |-> TRUE,
     fields |-> IF kind = "dict" THEN Fields({"x"}) ELSE NoFields]

KernelValue(io, primal) ==
    [io_type |-> io, no_diff |-> FALSE, derivative |-> TRUE, primal |-> primal,
     fields |-> NoFields]

\* The kernel side of a parameter of a struct type with the one field x.
Struct(sl) == [sl EXCEPT !.fields = Fields({"x"})]

\* A host value with the kernel type it is bound to.
Pair(py, sl) == [py |-> py, sl |-> sl]

\* What a node can be bound to when only its vectorization varies.
VecChoices(kind) ==
    {Pair(HostValue(kind, Len(m), [valid |-> TRUE, dims |-> m], NoType),
          KernelValue("inn", "float")) : m \in Mappings}
    \cup {Pair(HostValue(kind, r, Invalid, t), KernelValue("inn", "float")) :
            r \in 0..MaxDim, t \in {NoType, [tag |-> "explicit", arg |-> 0]}}
    \cup {Pair(HostValue("StructuredBuffer", 0, Invalid, NoType), KernelValue("inn", k)) :
            k \in {"float", "StructuredBufferType"}}

\* The node injected for the return value: PythonVariable(context, None, None, "_result").
ResultChoices ==
    {Pair(HostValue("none", r, Invalid, NoType), KernelValue("out", "float")) : r \in 0..MaxDim}

DefaultPair(n) ==
    IF n = ResultNode
    THEN Pair(HostValue("none", 0, Invalid, NoType), KernelValue("out", "float"))
    ELSE IF n = 1
    THEN Pair(HostValue("dict", 0, Invalid, NoType), Struct(KernelValue("inn", "float")))
    ELSE Pair(HostValue("NDBuffer", 1, Invalid, NoType), KernelValue("inn", "float"))

\* What a node can be bound to when only its differentiability inputs vary.
DiffChoices(n, ios) ==
    {Pair([DefaultPair(n).py EXCEPT !.differentiable = pd],
          [DefaultPair(n).sl EXCEPT !.io_type = io, !.no_diff = nd, !.derivative = dv]) :
        io \in ios, nd \in BOOLEAN, dv \in BOOLEAN, pd \in BOOLEAN}

\* chain[0]: its class, and what the overload it names is.
TheFunction == [name |-> "polynomial", differentiable |-> TRUE, class |-> "Function"]

Threads == {"t1", "t2"}

\* The tcall of a thread that has made no call yet.
NoCall == [id |-> 0, chain |-> <<>>, args |-> [fingerprint |-> "", data |-> ""], sig |-> <<>>]

\* CodeGen() before anything is emitted, no exception, and a CallData whose
\* kernel and runtime are not set.
NoCode == [call_data_structs |-> <<>>, call_data |-> <<>>, trampoline |-> <<>>]

NoError == [raised |-> FALSE, type |-> "", variable |-> "None", origin |-> 0, cause |-> ""]

NewSelf == [kernel |-> FALSE, runtime |-> FALSE]

NoIndex == [transform |-> <<>>, call_id |-> <<>>, subscript |-> <<>>]

\* No call of the kernel has been dispatched.
NoDispatch ==
    [shapes |-> <<>>, call_shape |-> <<>>, call_id |-> <<>>, element |-> <<>>,
     stage |-> "idle"]

GenIdle ==
    /\ cg = NoCode
    /\ error = NoError
    /\ self = NewSelf
    /\ index = NoIndex
    /\ dispatch = NoDispatch

\* No _build_call_data call is in progress and the cache is empty.
CacheIdle ==
    /\ CALL_DATA_CACHE = <<>>
    /\ calldata = <<>>
    /\ tpc = [t \in Threads |-> "idle"]
    /\ tcall = [t \in Threads |-> NoCall]
    /\ tres = [t \in Threads |-> [kind |-> "none", obj |-> 0]]
    /\ started = <<>>
    /\ built = <<>>
    /\ ncalls = 0
    /\ log = <<>>

\* A bound tree whose vectorization inputs vary.
InitVec ==
    /\ \E c1 \in VecChoices("dict"), c2 \in VecChoices("NDBuffer"),
          c3 \in VecChoices("NDBuffer"), c4 \in ResultChoices :
          /\ python = <<c1.py, c2.py, c3.py, c4.py>>
          /\ slang = <<Struct(c1.sl), c2.sl, c3.sl, c4.sl>>
    /\ bindings \in {{1, 2, 3}, Nodes}
    /\ (ResultNode \notin bindings =>
            /\ python[ResultNode] = DefaultPair(ResultNode).py
            /\ slang[ResultNode] = DefaultPair(ResultNode).sl)
    /\ context = [call_mode |-> "prim", call_dimensionality |-> 0]

\* A bound tree whose differentiability inputs and call mode vary.
InitDiff ==
    /\ \E c1 \in DiffChoices(1, IOType), c2 \in DiffChoices(2, IOType),
          c3 \in {DefaultPair(3)},
          c4 \in DiffChoices(ResultNode, {"out"}) :
          /\ python = <<c1.py, c2.py, c3.py, c4.py>>
          /\ slang = <<Struct(c1.sl), c2.sl, c3.sl, c4.sl>>
    /\ bindings \in {{1, 2, 3}, Nodes}
    /\ (ResultNode \notin bindings =>
            /\ python[ResultNode] = DefaultPair(ResultNode).py
            /\ slang[ResultNode] = DefaultPair(ResultNode).sl)
    /\ context \in [call_mode : CallMode, call_dimensionality : {0}]

Init ==
    /\ InitVec \/ InitDiff
    /\ bound = [n \in Nodes |-> NewBound]
    /\ pc = "bound"
    /\ function = TheFunction
    /\ trace = <<"apply_explicit_vectorization", "specialize", "bind">>
    /\ GenIdle
    /\ CacheIdle

-----------------------------------------------------------------------------
(* Exceptions and the handlers of CallData.__init__                        *)

\* An exception raised inside the constructor: its class, the variable it
\* carries and the node whose processing raised it.
Exc(type, variable, origin) ==
    [raised |-> TRUE, type |-> type, variable |-> variable, origin |-> origin]

NoExc == [raised |-> FALSE, type |-> "", variable |-> "None", origin |-> 0]

\* Mutant: the handler returns instead of raising.
handle_swallowing(exc) ==
    [raised |-> FALSE, type |-> "", variable |-> "None", origin |-> exc.origin,
     cause |-> exc.type]

\* calldata.py lines 215-247: every handler raises a ValueError; only the
\* handlers of PythonVariableException and BoundVariableException hand the
\* variable of the exception to the message.
handle(exc) ==
    [raised |-> TRUE, type |-> "ValueError",
     variable |-> IF exc.type \in {"PythonVariableException", "BoundVariableException"}
                  THEN exc.variable ELSE "None",
     origin |-> exc.origin, cause |-> exc.type]

\* Lines 228-232 for an exception raised before line 82 has assigned the
\* local `function`: bindings is None, the message of the ValueError reads
\* function.reflections, and the handler itself raises.
handle_unbound_function(exc) ==
    [raised |-> TRUE, type |-> "UnboundLocalError", variable |-> "None",
     origin |-> exc.origin, cause |-> exc.type]

-----------------------------------------------------------------------------
(* The phases of CallData.__init__ after bind(), lines 155-178              *)

ApplyImplicitVectorization ==
    /\ pc = "bound"
    /\ LET r == apply_implicit_vectorization(python, slang, bound, bindings)
       IN  /\ python' = r.python
           /\ bound' = r.bound
           /\ pc' = IF r.raised THEN "raised" ELSE "vectorized"
           /\ error' = IF r.raised THEN handle(Exc("ValueError", "None", r.failed)) ELSE error
    /\ UNCHANGED <<slang, bindings, context>>
    /\ trace' = Append(trace, "apply_implicit_vectorization")
    /\ UNCHANGED <<cg, self, index, dispatch>>
    /\ UNCHANGED cacheVars

CalculateCallDimensionality ==
    /\ pc = "vectorized"
    /\ context' = [context EXCEPT !.call_dimensionality =
                        calculate_call_dimensionality(bound, bindings)]
    /\ pc' = "dimensioned"
    /\ UNCHANGED <<python, slang, bound, bindings>>
    /\ trace' = Append(trace, "calculate_call_dimensionality")
    /\ UNCHANGED genVars
    /\ UNCHANGED cacheVars

CreateReturnValueBinding ==
    /\ pc = "dimensioned"
    /\ pc' = "result_bound"
    /\ UNCHANGED <<python, slang, bound, bindings, context>>
    /\ trace' = Append(trace, "create_return_value_binding")
    /\ UNCHANGED genVars
    /\ UNCHANGED cacheVars

\* Mutant: the mappings are finalized before the return value is bound.
FinalizeMappings_before_return_binding ==
    /\ pc = "dimensioned"
    /\ LET r == finalize_mappings(python, bound, bindings, context.call_dimensionality)
       IN  /\ python' = r.python
           /\ bound' = r.bound
    /\ pc' = "finalized"
    /\ UNCHANGED <<slang, bindings, context>>
    /\ trace' = Append(trace, "finalize_mappings")
    /\ UNCHANGED genVars
    /\ UNCHANGED cacheVars

FinalizeMappings ==
    /\ pc = "result_bound"
    /\ LET r == finalize_mappings(python, bound, bindings, context.call_dimensionality)
       IN  /\ python' = r.python
           /\ bound' = r.bound
    /\ pc' = "finalized"
    /\ UNCHANGED <<slang, bindings, context>>
    /\ trace' = Append(trace, "finalize_mappings")
    /\ UNCHANGED genVars
    /\ UNCHANGED cacheVars

\* validate_specialize cross-checks the call against the overload: it passes or raises.
ValidateSpecialize ==
    /\ pc = "finalized"
    /\ pc' \in {"validated", "raised"}
    /\ error' = IF pc' = "raised" THEN handle(Exc("KernelGenException", "None", 0)) ELSE error
    /\ UNCHANGED <<python, slang, bound, bindings, context>>
    /\ trace' = Append(trace, "validate_specialize")
    /\ UNCHANGED <<cg, self, index, dispatch>>
    /\ UNCHANGED cacheVars

CalculateDifferentiability ==
    /\ pc = "validated"
    /\ bound' = calculate_differentiability(python, slang, bound,
                                           restrict(DiffOrder, bindings), context.call_mode)
    /\ pc' = "differentiated"
    /\ UNCHANGED <<python, slang, bindings, context>>
    /\ trace' = Append(trace, "calculate_differentiability")
    /\ UNCHANGED genVars
    /\ UNCHANGED cacheVars

Next ==
    \/ ApplyImplicitVectorization
    \/ CalculateCallDimensionality
    \/ CreateReturnValueBinding
    \/ FinalizeMappings
    \/ ValidateSpecialize
    \/ CalculateDifferentiability

Spec == Init /\ [][Next]_vars

-----------------------------------------------------------------------------
(* function.py: the chain, its signature and the call-data cache           *)

\* function.py line 13.
ENABLE_CALLDATA_CACHE == TRUE

\* The chains a call is made through, as the classes of their links from the
\* Function at the head to the link that is called.
Chains ==
    {<<"Function">>,
     <<"Function", "FunctionChainBwdsDiff">>,
     <<"Function", "FunctionChainBwdsDiff", "FunctionChainSet">>,
     <<"Function", "FunctionChainSet", "FunctionChainSet">>}

\* The positional argument b of a call: the fingerprint its host type
\* registers in PYTHON_SIGNATURES and the data it holds. Argument a is always
\* a dict with one NDBuffer field x.
ArgValues == [fingerprint : {"NDBuffer", "Buffer"}, data : {"d1", "d2"}]

\* FunctionChainBase.__init__ line 37 and Function.__init__ line 209: the
\* signature of a link is its parent's followed by ".".
RECURSIVE slangpy_signature(_, _)
slangpy_signature(chain, name) ==
    IF Len(chain) = 1
    THEN <<"[", "", "::", name, "]">>
    ELSE slangpy_signature(SubSeq(chain, 1, Len(chain) - 1), name) \o <<".">>

\* Lines 17-22.
_cache_value_to_id(val) == val.fingerprint

\* Lines 66-75: `this` is None (no FunctionChainThis link); the native
\* hash_signature is given the link that is called, of which it can see the
\* class and the slangpy_signature, `this`, and the id of every argument.
hash_signature(chain, name, args) ==
    <<chain[Len(chain)], slangpy_signature(chain, name), "None", _cache_value_to_id(args)>>

\* Mutant: the cache is never consulted.
cache_hit_never(cache, sig) == FALSE

\* Line 77.
cache_hit(cache, sig) == ENABLE_CALLDATA_CACHE /\ sig \in DOMAIN cache

\* Mutant: the entry is not stored.
cache_store_dropped(cache, sig, res) == cache

\* Mutant: the store replaces the whole cache.
cache_store_evicting(cache, sig, res) == IF ENABLE_CALLDATA_CACHE THEN (sig :> res) ELSE cache

\* Mutant: an entry that exists is kept (a setdefault).
cache_store_keeps_first(cache, sig, res) ==
    IF ENABLE_CALLDATA_CACHE /\ sig \notin DOMAIN cache THEN (sig :> res) @@ cache ELSE cache

\* Lines 89-90.
cache_store(cache, sig, res) ==
    IF ENABLE_CALLDATA_CACHE THEN (sig :> res) @@ cache ELSE cache

-----------------------------------------------------------------------------
(* calldata.py: CallData.__init__                                          *)

\* Lines 80 and 102-103.
call_mode_of(chain) ==
    IF \E i \in 1..Len(chain) : chain[i] = "FunctionChainBwdsDiff" THEN "bwds" ELSE "prim"

\* Mutant: the check of lines 142-145 is missing.
differentiability_error_never(fn, mode) == FALSE

\* Lines 142-145: a call that is not primal needs a differentiable overload.
differentiability_error(fn, mode) == ~fn.differentiable /\ mode # "prim"

\* The host tree PythonFunctionCall builds from the arguments.
ArgPython(args) ==
    <<DefaultPair(1).py,
      DefaultPair(2).py,
      IF args.fingerprint = "Buffer"
      THEN HostValue("StructuredBuffer", 0, Invalid, NoType)
      ELSE DefaultPair(3).py,
      DefaultPair(ResultNode).py>>

\* The kernel tree of the overload: float parameters a.x and b, a float result.
FunctionSlang == [n \in Nodes |-> DefaultPair(n).sl]

\* What the collaborators outside the binding tree do in one construction.
Externals == {"ok", "validate_raises", "compile_raises"}

\* Mutant: an exception of the constructor is swallowed.
constructed_always(r) == TRUE

\* Line 88: the constructor returned instead of raising.
constructed(r) == ~r.raised

\* What a construction leaves behind: the tree, the phase it reached and
\* whether it raised.
CallData_result(py, bnd, nodes, ctx, at, raised) ==
    [python |-> py, slang |-> FunctionSlang, bound |-> bnd, bindings |-> nodes,
     context |-> ctx, pc |-> at, raised |-> raised]

\* Lines 177-214: differentiability, then code generation, the shader file and
\* the compiler, which are outside the binding tree.
CallData_differentiate(py, bnd, nodes, ctx, ext) ==
    LET b == calculate_differentiability(py, FunctionSlang, bnd,
                                         restrict(DiffOrder, nodes), ctx.call_mode)
    IN  IF ext = "compile_raises"
        THEN CallData_result(py, b, nodes, ctx, "raised", TRUE)
        ELSE CallData_result(py, b, nodes, ctx, "compiled", FALSE)

\* Lines 174-175: validate_specialize.
CallData_validate(r, nodes, ctx, ext) ==
    IF ext = "validate_raises"
    THEN CallData_result(r.python, r.bound, nodes, ctx, "raised", TRUE)
    ELSE CallData_differentiate(r.python, r.bound, nodes, ctx, ext)

\* Lines 165-172: return value binding and finalize_mappings.
CallData_finalize(py, bnd, nodes, ctx, ext) ==
    CallData_validate(finalize_mappings(py, bnd, nodes, ctx.call_dimensionality),
                      nodes, ctx, ext)

\* Lines 161-163: the call dimensionality, unless implicit vectorization raised.
CallData_dimension(r, nodes, mode, ext) ==
    IF r.raised
    THEN CallData_result(r.python, r.bound, nodes,
                         [call_mode |-> mode, call_dimensionality |-> 0], "raised", TRUE)
    ELSE CallData_finalize(r.python, r.bound, nodes,
                           [call_mode |-> mode,
                            call_dimensionality |->
                                calculate_call_dimensionality(r.bound, nodes)],
                           ext)

\* Lines 147-156: the _result node is injected in a primal call of a function
\* that returns a value; bind; implicit vectorization.
CallData_bind(py, mode, ext) ==
    CallData_dimension(
        apply_implicit_vectorization(py, FunctionSlang, [n \in Nodes |-> NewBound],
                                     IF mode = "prim" THEN Nodes ELSE Nodes \ {ResultNode}),
        IF mode = "prim" THEN Nodes ELSE Nodes \ {ResultNode}, mode, ext)

\* Lines 64-214, from the chain to the compiled kernel.
CallData_init(chain, args, fn, ext) ==
    IF differentiability_error(fn, call_mode_of(chain))
    THEN CallData_result(ArgPython(args), [n \in Nodes |-> NewBound], {},
                         [call_mode |-> call_mode_of(chain), call_dimensionality |-> 0],
                         "raised", TRUE)
    ELSE CallData_bind(ArgPython(args), call_mode_of(chain), ext)

-----------------------------------------------------------------------------
(* FunctionChainBase._build_call_data, called by one caller at a time      *)

\* The entry a finished call leaves in the log.
Finished(call, kind, obj) ==
    [sig |-> call.sig, chain |-> call.chain, data |-> call.args.data, kind |-> kind, obj |-> obj]

bump(counts, sig) ==
    IF sig \in DOMAIN counts
    THEN [counts EXCEPT ![sig] = @ + 1]
    ELSE (sig :> 1) @@ counts

\* Lines 65-78: the signature and the cache lookup, by a thread that is not
\* inside _build_call_data.
build_call_data_enter(t) ==
    /\ tpc[t] = "idle"
    /\ ncalls < MaxCalls
    /\ \E chain \in Chains, args \in ArgValues :
          LET sig == hash_signature(chain, function.name, args)
              call == [id |-> ncalls + 1, chain |-> chain, args |-> args, sig |-> sig]
          IN  /\ tcall' = [tcall EXCEPT ![t] = call]
              /\ IF cache_hit(CALL_DATA_CACHE, sig)
                 THEN /\ tres' = [tres EXCEPT ![t] =
                                     [kind |-> "returned", obj |-> CALL_DATA_CACHE[sig]]]
                      /\ tpc' = tpc
                      /\ log' = Append(log, Finished(call, "returned", CALL_DATA_CACHE[sig]))
                 ELSE /\ tres' = [tres EXCEPT ![t] = [kind |-> "none", obj |-> 0]]
                      /\ tpc' = [tpc EXCEPT ![t] = "construct"]
                      /\ log' = log
    /\ ncalls' = ncalls + 1
    /\ UNCHANGED <<CALL_DATA_CACHE, calldata, function, started, built>>
    /\ UNCHANGED <<trace, genVars>>
    /\ UNCHANGED treeVars

\* A call made while no other call is in progress.
BuildCallDataEnter(t) ==
    /\ \A u \in Threads : tpc[u] = "idle"
    /\ build_call_data_enter(t)

\* A call made whatever the other threads are doing: nothing in
\* _build_call_data waits for another caller.
BuildCallDataEnterConcurrently(t) ==
    /\ tpc[t] = "idle"
    /\ build_call_data_enter(t)

\* Lines 80-88: CallData(chain, *args, **kwargs).
BuildCallDataConstruct(t) ==
    /\ tpc[t] = "construct"
    /\ \E ext \in Externals :
          LET r == CallData_init(tcall[t].chain, tcall[t].args, function, ext)
              obj == Cardinality(DOMAIN calldata) + 1
          IN  /\ python' = r.python
              /\ slang' = r.slang
              /\ bound' = r.bound
              /\ bindings' = r.bindings
              /\ context' = r.context
              /\ pc' = r.pc
              /\ IF constructed(r)
                 THEN /\ calldata' = (obj :> [call_mode |-> r.context.call_mode,
                                              call_dimensionality |->
                                                  r.context.call_dimensionality]) @@ calldata
                      /\ tres' = [tres EXCEPT ![t] = [kind |-> "constructed", obj |-> obj]]
                      /\ tpc' = [tpc EXCEPT ![t] = "insert"]
                      /\ log' = log
                 ELSE /\ calldata' = calldata
                      /\ tres' = [tres EXCEPT ![t] = [kind |-> "raised", obj |-> 0]]
                      /\ tpc' = [tpc EXCEPT ![t] = "idle"]
                      /\ log' = Append(log, Finished(tcall[t], "raised", 0))
    /\ started' = bump(started, tcall[t].sig)
    /\ UNCHANGED <<trace, genVars>>
    /\ UNCHANGED <<CALL_DATA_CACHE, function, tcall, built, ncalls>>

\* Lines 89-91: the store and the return.
BuildCallDataExit(t) ==
    /\ tpc[t] = "insert"
    /\ CALL_DATA_CACHE' = cache_store(CALL_DATA_CACHE, tcall[t].sig, tres[t].obj)
    /\ tres' = [tres EXCEPT ![t] = [kind |-> "returned", obj |-> tres[t].obj]]
    /\ built' = IF tcall[t].sig \in DOMAIN built THEN built
                ELSE (tcall[t].sig :> tres[t].obj) @@ built
    /\ tpc' = [tpc EXCEPT ![t] = "idle"]
    /\ log' = Append(log, Finished(tcall[t], "returned", tres[t].obj))
    /\ UNCHANGED <<calldata, function, tcall, started, ncalls>>
    /\ UNCHANGED <<trace, genVars>>
    /\ UNCHANGED treeVars

\* No tree has been bound yet, and the Function is differentiable or not.
InitCache ==
    /\ python = [n \in Nodes |-> DefaultPair(n).py]
    /\ slang = FunctionSlang
    /\ bound = [n \in Nodes |-> NewBound]
    /\ bindings = {}
    /\ context = [call_mode |-> "prim", call_dimensionality |-> 0]
    /\ pc = "unbound"
    /\ function \in [name : {"polynomial"}, differentiable : BOOLEAN, class : {"Function"}]
    /\ trace = <<>>
    /\ GenIdle
    /\ CacheIdle

\* One caller: every call ends before the next begins.
NextCache ==
    \/ BuildCallDataEnter("t1")
    \/ BuildCallDataConstruct("t1")
    \/ BuildCallDataExit("t1")

SpecCache == InitCache /\ [][NextCache]_vars

\* Two threads: each statement of _build_call_data of one thread can run
\* between two statements of the other.
NextThreads ==
    \/ BuildCallDataEnterConcurrently("t1")
    \/ BuildCallDataConstruct("t1")
    \/ BuildCallDataExit("t1")
    \/ BuildCallDataEnterConcurrently("t2")
    \/ BuildCallDataConstruct("t2")
    \/ BuildCallDataExit("t2")

SpecThreads == InitCache /\ [][NextThreads]_vars

-----------------------------------------------------------------------------
(* Code generation: the gen_calldata of the host types and                 *)
(* BoundVariable.gen_call_data_code                                        *)

\* PrimType: primal is slot 0 of the access pair, derivative slot 1.
PrimType == <<"primal", "derivative">>

\* An entry of a transform that maps no call dimension.
NoneEntry == -1

\* A token of generated text: a piece of text and the number it holds.
Tok(text, arg) == [tok |-> text, arg |-> arg]

RECURSIVE join(_)
join(parts) ==
    IF Len(parts) = 0 THEN <<>>
    ELSE IF Len(parts) = 1 THEN parts[1]
    ELSE parts[1] \o <<Tok(",", 0)>> \o join(Tail(parts))

\* Mutant: the entries that map no call dimension are left out.
_transform_to_subscript_skips_none(transform) ==
    <<Tok("[{", 0)>>
    \o join([i \in 1..Len(SelectSeq(transform, LAMBDA x : x # NoneEntry)) |->
                <<Tok("context.call_id", SelectSeq(transform, LAMBDA x : x # NoneEntry)[i])>>])
    \o <<Tok("}]", 0)>>

\* buffertype.py lines 37-44, as the tokens of the generated text: "0" for an
\* entry that is None and context.call_id[x] for an entry x.
_transform_to_subscript(transform) ==
    <<Tok("[{", 0)>>
    \o join([i \in 1..Len(transform) |->
                IF transform[i] = NoneEntry THEN <<Tok("0", 0)>>
                ELSE <<Tok("context.call_id", transform[i])>>])
    \o <<Tok("}]", 0)>>

\* What one gen_calldata call adds to the call-data structs: the slots it
\* declares storage for and those it declares a load and a store accessor for.
Emitted(n, what, storage, load, store, text) ==
    [node |-> n, what |-> what, storage |-> storage, load |-> load, store |-> store,
     text |-> text]

\* The outcome of a generation step: the items emitted and the exception raised.
Generated(items, exc) == [items |-> items, exc |-> exc]

SlotsWhere(access, kinds) == {PrimType[i] : i \in {j \in 1..2 : access[j] \in kinds}}

\* Mutant: a store accessor is declared for every slot that has storage.
NDDifferentiableBufferType_gen_calldata_store_always(n, access, transform) ==
    Generated(<<Emitted(n, "record",
                        SlotsWhere(access, {"read", "write", "readwrite"}),
                        SlotsWhere(access, {"read", "write", "readwrite"}),
                        SlotsWhere(access, {"read", "write", "readwrite"}),
                        _transform_to_subscript(transform))>>, NoExc)

\* types/buffertype.py lines 150-172: nothing for a slot whose access is none,
\* a TensorBuffer and a load for read, an RWTensorBuffer, a load and a store
\* for anything else.
NDDifferentiableBufferType_gen_calldata(n, access, transform) ==
    Generated(<<Emitted(n, "record",
                        SlotsWhere(access, {"read", "write", "readwrite"}),
                        SlotsWhere(access, {"read", "write", "readwrite"}),
                        SlotsWhere(access, {"write", "readwrite"}),
                        _transform_to_subscript(transform))>>, NoExc)

\* Mutant: the subscript takes the call coordinates in their own order,
\* whatever the transform says.
NDBufferType_gen_calldata_unmapped(n, access, transform) ==
    IF access[1] = "none" \/ access[2] # "none"
    THEN Generated(<<>>, Exc("AssertionError", "None", n))
    ELSE Generated(<<Emitted(n, "record", {"primal"}, {"primal"},
                             SlotsWhere(<<access[1], "none">>, {"write", "readwrite"}),
                             _transform_to_subscript([i \in 1..Len(transform) |-> i - 1]))>>,
                   NoExc)

\* types/buffertype.py lines 62-79: the two asserts, then as above for the
\* primal slot.
NDBufferType_gen_calldata(n, access, transform) ==
    IF access[1] = "none" \/ access[2] # "none"
    THEN Generated(<<>>, Exc("AssertionError", "None", n))
    ELSE Generated(<<Emitted(n, "record", {"primal"}, {"primal"},
                             SlotsWhere(<<access[1], "none">>, {"write", "readwrite"}),
                             _transform_to_subscript(transform))>>, NoExc)

\* bindings/valuereftype.py lines 32-41: the two asserts, then an alias of
\* ValueRef for read and of RWValueRef for anything else.
ValueRefType_gen_calldata(n, access) ==
    IF access[1] = "none" \/ access[2] # "none"
    THEN Generated(<<>>, Exc("AssertionError", "None", n))
    ELSE Generated(<<Emitted(n, "alias", {"primal"}, {"primal"},
                             SlotsWhere(<<access[1], "none">>, {"write", "readwrite"}),
                             <<>>)>>, NoExc)

\* bindings/structuredbuffertype.py lines 44-65: the primal access must be
\* read and the vector type a raw buffer type.
StructuredBufferType_gen_calldata(n, access, vector_type) ==
    IF access[1] # "read"
    THEN Generated(<<>>, Exc("AssertionError", "None", n))
    ELSE IF vector_type.tag \in BufferKinds
    THEN Generated(<<Emitted(n, "alias", {"primal"}, {"primal"}, {}, <<>>)>>, NoExc)
    ELSE Generated(<<>>, Exc("ValueError", "None", n))

\* extensions/wanghasharg.py lines 38-43: an alias when the primal is read,
\* nothing otherwise.
WangHashArgType_gen_calldata(n, access) ==
    IF access[1] = "read"
    THEN Generated(<<Emitted(n, "alias", {"primal"}, {"primal"}, {}, <<>>)>>, NoExc)
    ELSE Generated(<<>>, NoExc)

\* self.python.primal.gen_calldata of line 309, by the host type of the leaf;
\* the _result node holds the ValueRef the return value binding gave it.
gen_calldata(n, py, bnd) ==
    CASE py.primal.kind = "NDDifferentiableBuffer" ->
            NDDifferentiableBufferType_gen_calldata(n, bnd.access, py.vector_mapping.dims)
      [] py.primal.kind = "NDBuffer" ->
            NDBufferType_gen_calldata(n, bnd.access, py.vector_mapping.dims)
      [] py.primal.kind = "StructuredBuffer" ->
            StructuredBufferType_gen_calldata(n, bnd.access, py.vector_type)
      [] py.primal.kind = "WangHashArg" ->
            WangHashArgType_gen_calldata(n, bnd.access)
      [] py.primal.kind = "ValueRef" -> ValueRefType_gen_calldata(n, bnd.access)
      [] OTHER -> ValueRefType_gen_calldata(n, bnd.access)

\* Lines 303-306: the check of a leaf against a host value that cannot be
\* written.
not_writable_error(py, bnd, d) ==
    /\ bnd.access[1] \in {"write", "readwrite"}
    /\ ~py.writable
    /\ d = 0

\* Lines 301-316: the leaf branch of gen_call_data_code.
gen_call_data_code_leaf(n, py, bnd, d) ==
    IF not_writable_error(py, bnd, d)
    THEN Generated(<<>>, Exc("ValueError", "None", n))
    ELSE IF gen_calldata(n, py, bnd).exc.raised
    THEN gen_calldata(n, py, bnd)
    ELSE Generated(gen_calldata(n, py, bnd).items
                   \o <<Emitted(n, "map", {}, {}, {}, py.vector_mapping.dims)>>, NoExc)

\* Mutant: the aggregate accessors are emitted whatever the composite's own
\* access pair is.
composite_accessors_all(access) == {"primal", "derivative"}

\* Lines 260-262: the slots a composite emits its aggregate load and store
\* functions for.
composite_accessors(access) == SlotsWhere(access, {"read", "write", "readwrite"})

\* Lines 245-299: the composite branch, given what its children generated.
gen_call_data_code_composite(n, bnd, D, inner) ==
    IF inner.exc.raised
    THEN inner
    ELSE Generated(inner.items
                   \o <<Emitted(n, "struct", {}, composite_accessors(bnd.access),
                                composite_accessors(bnd.access), <<>>),
                        Emitted(n, "map", {}, {}, {}, [i \in 1..D |-> i - 1])>>, NoExc)

\* The children of a composite, in the order of its dict, until one raises.
RECURSIVE gen_children(_, _, _, _)
gen_children(py, bnd, todo, d) ==
    IF todo = <<>> THEN Generated(<<>>, NoExc)
    ELSE IF gen_call_data_code_leaf(todo[1], py[todo[1]], bnd[todo[1]], d).exc.raised
    THEN gen_call_data_code_leaf(todo[1], py[todo[1]], bnd[todo[1]], d)
    ELSE Generated(gen_call_data_code_leaf(todo[1], py[todo[1]], bnd[todo[1]], d).items
                   \o gen_children(py, bnd, Tail(todo), d).items,
                   gen_children(py, bnd, Tail(todo), d).exc)

\* Lines 244-321 for the node n at the given depth.
gen_call_data_code(n, py, bnd, nodes, D, d) ==
    IF ~IsLeaf(n)
    THEN gen_call_data_code_composite(
            n, bnd[n], D, gen_children(py, bnd, restrict(DiffOrder, children(n) \cap nodes), d + 1))
    ELSE gen_call_data_code_leaf(n, py[n], bnd[n], d)

\* generate_code: gen_call_data_code of every argument, positional arguments
\* first, until one raises.
RECURSIVE generate_code(_, _, _, _, _)
generate_code(py, bnd, nodes, D, todo) ==
    IF todo = <<>> THEN Generated(<<>>, NoExc)
    ELSE IF gen_call_data_code(todo[1], py, bnd, nodes, D, depth(todo[1])).exc.raised
    THEN gen_call_data_code(todo[1], py, bnd, nodes, D, depth(todo[1]))
    ELSE Generated(gen_call_data_code(todo[1], py, bnd, nodes, D, depth(todo[1])).items
                   \o generate_code(py, bnd, nodes, D, Tail(todo)).items,
                   generate_code(py, bnd, nodes, D, Tail(todo)).exc)

\* The arguments of the call: the nodes that are nobody's child.
TopLevel(nodes) == restrict(DiffOrder, {n \in nodes : depth(n) = 0})

\* The direction keyword of an IO type (lines 325-330).
io_keyword(io_type) ==
    CASE io_type = "inout" -> <<"inout">>
      [] io_type = "out" -> <<"out">>
      [] io_type = "inn" -> <<"in">>
      [] OTHER -> <<>>

\* Mutant: the annotation is copied from the kernel parameter alone.
_gen_trampoline_argument_kernel_no_diff(type_name, variable_name, io_type, no_diff, differentiable) ==
    (IF no_diff THEN <<"no_diff">> ELSE <<>>)
    \o io_keyword(io_type) \o <<type_name, variable_name>>

\* boundvariable.py lines 323-333, as the words of the argument definition:
\* the type and the name, the direction keyword put before them, and
\* no_diff put before that.
_gen_trampoline_argument(type_name, variable_name, io_type, no_diff, differentiable) ==
    (IF no_diff \/ ~differentiable THEN <<"no_diff">> ELSE <<>>)
    \o io_keyword(io_type) \o <<type_name, variable_name>>

\* The signature of the trampoline: one argument definition for every
\* argument of the call, in the order of the call.
gen_trampoline(py, sl, bnd, nodes) ==
    [i \in 1..Len(TopLevel(nodes)) |->
        [node |-> TopLevel(nodes)[i],
         arg |-> _gen_trampoline_argument(py[TopLevel(nodes)[i]].vector_type.tag,
                                          path(TopLevel(nodes)[i]),
                                          sl[TopLevel(nodes)[i]].io_type,
                                          sl[TopLevel(nodes)[i]].no_diff,
                                          bnd[TopLevel(nodes)[i]].differentiable)]]

-----------------------------------------------------------------------------
(* CallData.__init__ phase by phase, lines 129-214                         *)

\* The node of the child that BoundVariable.__init__ creates for a host field.
field_node(name) == IF name = "x" THEN 2 ELSE 0

\* boundvariable.py lines 78-88: the children come from the host fields; the
\* kernel side must have fields (the assert) and is indexed by every host
\* field name (a KeyError when it has no such field). Either exception
\* leaves no BoundVariable behind.
BoundVariable_children(n, py, sl) ==
    IF ~py.fields.composite
    THEN [exc |-> NoExc, children |-> {}]
    ELSE IF ~sl.fields.composite
    THEN [exc |-> Exc("AssertionError", "None", 0), children |-> {}]
    ELSE IF ~(py.fields.names \subseteq sl.fields.names)
    THEN [exc |-> Exc("KeyError", "None", 0), children |-> {}]
    ELSE [exc |-> NoExc, children |-> {field_node(f) : f \in py.fields.names}]

\* bind: a BoundVariable for every argument, each with its children.
bind(py, sl, top) ==
    [exc |-> BoundVariable_children(1, py[1], sl[1]).exc,
     nodes |-> top \cup BoundVariable_children(1, py[1], sl[1]).children]

\* Lines 75-127: the head of the chain must be a Function; the links of the
\* chain are read, the context is made and the host tree is built.
ReadChain ==
    /\ pc = "init"
    /\ IF function.class # "Function"
       THEN /\ pc' = "raised"
            /\ error' = handle_unbound_function(Exc("KernelGenException", "None", 0))
       ELSE /\ pc' = "start"
            /\ error' = error
    /\ UNCHANGED <<python, slang, bound, bindings, context, trace>>
    /\ UNCHANGED <<cg, self, index, dispatch>>
    /\ UNCHANGED cacheVars

\* Lines 129-131: the explicit mappings of the call are already on the host
\* nodes.
ApplyExplicitVectorization ==
    /\ pc = "start"
    /\ pc' = "explicit"
    /\ trace' = Append(trace, "apply_explicit_vectorization")
    /\ UNCHANGED <<python, slang, bound, bindings, context>>
    /\ UNCHANGED genVars
    /\ UNCHANGED cacheVars

\* Lines 133-145: specialize finds the overload or reports a mismatch; then
\* the differentiability of the overload is checked against the call mode.
Specialize ==
    /\ pc = "explicit"
    /\ \E mismatch \in BOOLEAN :
          IF mismatch \/ differentiability_error(function, context.call_mode)
          THEN /\ pc' = "raised"
               /\ error' = handle(Exc("KernelGenException", "None", 0))
          ELSE /\ pc' = "specialized"
               /\ error' = error
    /\ trace' = Append(trace, "specialize")
    /\ UNCHANGED <<python, slang, bound, bindings, context>>
    /\ UNCHANGED <<cg, self, index, dispatch>>
    /\ UNCHANGED cacheVars

\* Lines 147-153: the _result node of a primal call, then bind.
Bind ==
    /\ pc = "specialized"
    /\ LET r == bind(python, slang,
                     IF context.call_mode = "prim" THEN {1, 3, ResultNode} ELSE {1, 3})
       IN  IF r.exc.raised
           THEN /\ pc' = "raised"
                /\ error' = handle(r.exc)
                /\ bindings' = bindings
           ELSE /\ pc' = "bound"
                /\ error' = error
                /\ bindings' = r.nodes
    /\ bound' = [n \in Nodes |-> NewBound]
    /\ trace' = Append(trace, "bind")
    /\ UNCHANGED <<python, slang, context>>
    /\ UNCHANGED <<cg, self, index, dispatch>>
    /\ UNCHANGED cacheVars

\* The arguments whose call data was declared: those generated to the end.
declared(items, nodes) ==
    SelectSeq(TopLevel(nodes),
              LAMBDA n : \E i \in 1..Len(items) : items[i].node = n /\ items[i].what = "map")

\* Lines 180-186: generate_code into a new CodeGen.
GenerateCode ==
    /\ pc = "differentiated"
    /\ LET r == generate_code(python, bound, bindings, context.call_dimensionality,
                              TopLevel(bindings))
       IN  /\ cg' = [call_data_structs |-> r.items,
                     call_data |-> declared(r.items, bindings),
                     trampoline |-> IF r.exc.raised THEN <<>>
                                    ELSE gen_trampoline(python, slang, bound, bindings)]
           /\ IF r.exc.raised
              THEN /\ pc' = "raised"
                   /\ error' = handle(r.exc)
              ELSE /\ pc' = "generated"
                   /\ error' = error
    /\ trace' = Append(trace, "generate_code")
    /\ UNCHANGED <<python, slang, bound, bindings, context>>
    /\ UNCHANGED <<self, index, dispatch>>
    /\ UNCHANGED cacheVars

\* Lines 188-214: the shader file, the compiler and the linker, then
\* self.kernel and self.runtime.
CompileKernel ==
    /\ pc = "generated"
    /\ \E compiles \in BOOLEAN :
          IF compiles
          THEN /\ pc' = "compiled"
               /\ self' = [kernel |-> TRUE, runtime |-> TRUE]
               /\ error' = error
          ELSE /\ pc' = "raised"
               /\ self' = self
               /\ error' = handle(Exc("SlangCompileError", "None", 0))
    /\ UNCHANGED <<python, slang, bound, bindings, context, trace>>
    /\ UNCHANGED <<cg, index, dispatch>>
    /\ UNCHANGED cacheVars

\* The host types an argument or a field can have, with what each reports:
\* the buffers of types/buffertype.py are writable, a raw buffer is writable
\* when its usage says so, and a WangHashArg is neither writable nor
\* differentiable.
LeafHosts ==
    {[HostValue("NDDifferentiableBuffer", 1, Invalid, NoType) EXCEPT !.differentiable = d] :
        d \in BOOLEAN}
    \cup {HostValue("NDBuffer", 1, Invalid, NoType)}
    \cup {[HostValue("StructuredBuffer", 0, Invalid, NoType)
              EXCEPT !.writable = w, !.differentiable = FALSE] : w \in BOOLEAN}
    \cup {[HostValue("WangHashArg", 0, Invalid, NoType)
              EXCEPT !.writable = FALSE, !.differentiable = FALSE]}

\* The kernel types a leaf of the given host type is bound to.
LeafTypes(py) ==
    IF py.primal.kind = "StructuredBuffer" THEN {"StructuredBufferType", "float"} ELSE {"float"}

\* A ValueRef argument: writable, and differentiable when the type of the
\* value it holds is.
ValueRefs ==
    {[HostValue("ValueRef", 0, Invalid, NoType) EXCEPT !.differentiable = d] : d \in BOOLEAN}

\* What the reflection API reports for a parameter, a struct field, a
\* component of a vector or a function: its class, its modifiers, the name of
\* its type and the kind and the fields of that type.
Reflection(class, modifiers, type, kind, fields) ==
    [class |-> class, modifiers |-> modifiers, type |-> type, kind |-> kind,
     fields |-> fields]

has_modifier(reflection, m) == m \in reflection.modifiers

NoParent == [present |-> FALSE, io_type |-> "inn", no_diff |-> FALSE]

Parent(sl) == [present |-> TRUE, io_type |-> sl.io_type, no_diff |-> sl.no_diff]

\* slangvalue.py lines 31-35: what a child takes from its parent before its
\* own reflection is looked at (a value without a parent has nothing yet).
SlangValue_inherited(parent) == [io_type |-> parent.io_type, no_diff |-> parent.no_diff]

\* Lines 44-60: the `if` of line 44 is tested for every value, with or
\* without a parent: a VariableReflection gives the value its own modifiers,
\* a FunctionReflection makes it the out value of the function, and a scalar
\* type (a component of a vector) leaves it what lines 34-35 gave it.
SlangValue_modifiers(reflection, parent) ==
    IF reflection.class = "VariableReflection"
    THEN [io_type |-> IF has_modifier(reflection, "inout") THEN "inout"
                      ELSE IF has_modifier(reflection, "out") THEN "out"
                      ELSE "inn",
          no_diff |-> has_modifier(reflection, "nodiff")]
    ELSE IF reflection.class = "FunctionReflection"
    THEN [io_type |-> "out", no_diff |-> ~has_modifier(reflection, "differentiable")]
    ELSE SlangValue_inherited(parent)

\* Lines 62-76: the SlangValue made from a reflection.
SlangValue(reflection, parent) ==
    [io_type |-> SlangValue_modifiers(reflection, parent).io_type,
     no_diff |-> SlangValue_modifiers(reflection, parent).no_diff,
     derivative |-> TRUE,
     primal |-> reflection.type,
     fields |-> IF reflection.kind \in {"struct", "vector"} THEN reflection.fields
                ELSE NoFields]

\* The modifiers a parameter can be declared with.
ParameterModifiers ==
    {io \cup nd : io \in {{}, {"out"}, {"inout"}}, nd \in {{}, {"nodiff"}}}

\* The types parameter a can have: a scalar, a vector of one or two
\* components (x, y, z, w in this order, line 71) or a struct.
ParameterTypes ==
    {[kind |-> "scalar", fields |-> NoFields],
     [kind |-> "vector", fields |-> Fields({"x"})],
     [kind |-> "vector", fields |-> Fields({"x", "y"})],
     [kind |-> "struct", fields |-> Fields({"x"})],
     [kind |-> "struct", fields |-> Fields({"x", "y"})],
     [kind |-> "struct", fields |-> Fields({"y"})]}

\* The reflections of what parameter a has under the name x: a component of
\* a vector is a scalar type, a field of a struct is a variable declared
\* without modifiers, with its own type. A parameter without an x has no
\* such child.
ChildReflections(t, py) ==
    IF "x" \notin t.fields.names THEN {Reflection("ScalarType", {}, "float", "scalar", NoFields)}
    ELSE IF t.kind = "vector" THEN {Reflection("ScalarType", {}, "float", "scalar", NoFields)}
    ELSE {Reflection("VariableReflection", {}, ty, "scalar", NoFields) : ty \in LeafTypes(py)}

\* The kernel tree SlangFunction builds from the reflection of the overload
\* (lines 12-21): parameter a with what it has under the name x, parameter b
\* and the return value.
SlangTree(ra, rx, rb, rf) ==
    <<SlangValue(ra, NoParent),
      SlangValue(rx, Parent(SlangValue(ra, NoParent))),
      SlangValue(rb, NoParent),
      SlangValue(rf, NoParent)>>

\* A constructor handed a chain that is headed by a Function, primal or with
\* a FunctionChainBwdsDiff link: argument a is a dict with the field x,
\* argument b is a leaf, and the overload has the parameters a and b.
InitCtorFunction ==
    /\ \E a \in BOOLEAN, x \in LeafHosts, b \in LeafHosts \cup ValueRefs, fd \in BOOLEAN :
          \E ma \in ParameterModifiers, t \in ParameterTypes, mb \in {{}, {"out"}, {"inout"}} :
              \E rx \in ChildReflections(t, x), tb \in LeafTypes(b) :
                  /\ python = <<[HostValue("dict", 0, Invalid, NoType)
                                    EXCEPT !.differentiable = a],
                                x, b, DefaultPair(ResultNode).py>>
                  /\ slang = SlangTree(
                        Reflection("VariableReflection", ma, "float", t.kind, t.fields),
                        rx,
                        Reflection("VariableReflection", mb, tb, "scalar", NoFields),
                        Reflection("FunctionReflection",
                                   IF fd THEN {"differentiable"} ELSE {},
                                   "float", "scalar", NoFields))
                  /\ function = [name |-> "polynomial", differentiable |-> fd,
                                 class |-> "Function"]
    /\ context \in [call_mode : {"prim", "bwds"}, call_dimensionality : {0}]

\* A constructor handed a chain that was put together by hand and is headed
\* by something that is not a Function.
InitCtorOther ==
    /\ python = [n \in Nodes |-> DefaultPair(n).py]
    /\ slang = FunctionSlang
    /\ function \in [name : {"polynomial"}, differentiable : BOOLEAN,
                      class : {"FunctionChainSet"}]
    /\ context = [call_mode |-> "prim", call_dimensionality |-> 0]

InitCtor ==
    /\ InitCtorFunction \/ InitCtorOther
    /\ bound = [n \in Nodes |-> NewBound]
    /\ bindings = {}
    /\ pc = "init"
    /\ trace = <<>>
    /\ GenIdle
    /\ CacheIdle

NextCtor ==
    \/ ReadChain
    \/ ApplyExplicitVectorization
    \/ Specialize
    \/ Bind
    \/ ApplyImplicitVectorization
    \/ CalculateCallDimensionality
    \/ CreateReturnValueBinding
    \/ FinalizeMappings
    \/ ValidateSpecialize
    \/ CalculateDifferentiability
    \/ GenerateCode
    \/ CompileKernel

SpecCtor == InitCtor /\ [][NextCtor]_vars

-----------------------------------------------------------------------------
(* _transform_to_subscript on its own                                      *)

\* The transforms handed to gen_calldata: every entry is a call dimension or
\* None.
Transforms ==
    UNION {[1..k -> {NoneEntry} \cup 0..(MaxDim - 1)] : k \in 0..(MaxDim + 1)}

\* The coordinates of a thread of the call.
CallIds == [1..MaxDim -> 0..1]

InitSubscript ==
    /\ python = [n \in Nodes |-> DefaultPair(n).py]
    /\ slang = FunctionSlang
    /\ bound = [n \in Nodes |-> NewBound]
    /\ bindings = {}
    /\ context = [call_mode |-> "prim", call_dimensionality |-> 0]
    /\ pc = "unbound"
    /\ function = TheFunction
    /\ trace = <<>>
    /\ cg = NoCode
    /\ error = NoError
    /\ self = NewSelf
    /\ index \in [transform : Transforms, call_id : CallIds, subscript : {<<>>}]
    /\ dispatch = NoDispatch
    /\ CacheIdle

\* tf = _transform_to_subscript(transform), lines 66 and 155.
TransformToSubscript ==
    /\ index.subscript = <<>>
    /\ index' = [index EXCEPT !.subscript = _transform_to_subscript(index.transform)]
    /\ UNCHANGED <<python, slang, bound, bindings, context, pc, trace, cg, error, self,
                   dispatch>>
    /\ UNCHANGED cacheVars

NextSubscript == TransformToSubscript

SpecSubscript == InitSubscript /\ [][NextSubscript]_vars

-----------------------------------------------------------------------------
(* A call of the kernel: the call shape and the elements a thread reads     *)

\* The components of a generated subscript: the tokens between the brackets,
\* cut at the commas.
RECURSIVE split(_, _)
split(tokens, current) ==
    IF tokens = <<>> THEN <<current>>
    ELSE IF tokens[1].tok = "," THEN <<current>> \o split(Tail(tokens), <<>>)
    ELSE split(Tail(tokens), Append(current, tokens[1]))

Components(subscript) ==
    IF Len(subscript) = 2 THEN <<>>
    ELSE split(SubSeq(subscript, 2, Len(subscript) - 1), <<>>)

\* The value of one component for a thread with the given coordinates.
Value(component, call_id) ==
    IF component[1].tok = "0" THEN 0 ELSE call_id[component[1].arg + 1]

\* The extents a dimension of a host container can have.
Extents == {2, 3}

\* The shapes of the host buffers: NDBuffer(shape=...).
Shapes == UNION {[1..k -> Extents] : k \in 0..MaxDim}

\* The trailing dimensions one element of a kernel type holds: a float3 is one
\* dimension of extent 3, a float has none.
element_dimensions(type) == IF type = "float3" THEN 1 ELSE 0

\* The explicit mappings given for a buffer of shape s: one entry for each of
\* its dimensions.
MappingsOf(s) ==
    {Invalid} \cup {[valid |-> TRUE, dims |-> m] : m \in {x \in Mappings : Len(x) = Len(s)}}

\* The host buffers of a call: the leaves "a.x" and "b".
Buffers(py, nodes) == {n \in get_input_list(nodes) : py[n].primal.kind = "NDBuffer"}

\* The extents the arguments give dimension d of the call: dimension i of an
\* argument goes to the call dimension its mapping names at i.
axis_extents(py, shapes, nodes, d) ==
    UNION {{shapes[n][i] : i \in {j \in 1..Len(shapes[n]) :
                                    /\ j <= Len(py[n].vector_mapping.dims)
                                    /\ py[n].vector_mapping.dims[j] = d}} :
           n \in Buffers(py, nodes)}

\* The call shape: every dimension has the extent the arguments mapped to it
\* agree on, 1 when none is mapped to it; arguments that disagree make the
\* call fail (RaisedDim).
calculate_call_shape(py, shapes, nodes, D) ==
    [d \in 1..D |->
        LET e == axis_extents(py, shapes, nodes, d - 1) \ {1}
        IN  IF e = {} THEN 1
            ELSE IF Cardinality(e) = 1 THEN CHOOSE x \in e : TRUE
            ELSE RaisedDim]

\* The subscript generated for the buffer of node n.
subscript_of(items, n) ==
    LET i == CHOOSE j \in 1..Len(items) : items[j].node = n /\ items[j].what = "record"
    IN  items[i].text

\* value[{...}] as one thread evaluates it: the index of the element it loads.
load_primal(items, n, call_id) ==
    LET c == Components(subscript_of(items, n))
    IN  [i \in 1..Len(c) |-> Value(c[i], call_id)]

\* The coordinates of the threads of a call of the given shape.
Coordinates(call_shape) ==
    {c \in [1..Len(call_shape) -> 0..2] : \A d \in 1..Len(call_shape) : c[d] < call_shape[d]}

\* Two buffers are passed: "a.x", a buffer of floats bound to a float or a
\* float3 field with or without an explicit mapping, and "b", a buffer of the
\* elements its parameter takes.
InitDispatch ==
    /\ \E sa \in Shapes, sb \in Shapes, ta \in {"float", "float3"} :
          \E ma \in MappingsOf(sa) :
             /\ Len(sa) >= element_dimensions(ta)
             /\ python = <<DefaultPair(1).py,
                           HostValue("NDBuffer", Len(sa) - element_dimensions(ta), ma, NoType),
                           HostValue("NDBuffer", Len(sb), Invalid, NoType),
                           DefaultPair(ResultNode).py>>
             /\ slang = <<DefaultPair(1).sl, KernelValue("inn", ta), KernelValue("inn", ta),
                          DefaultPair(ResultNode).sl>>
             /\ dispatch = [NoDispatch EXCEPT !.shapes = <<<<>>, sa, sb, <<>>>>]
    /\ bindings \in {{1, 2, 3}, Nodes}
    /\ context = [call_mode |-> "prim", call_dimensionality |-> 0]
    /\ bound = [n \in Nodes |-> NewBound]
    /\ pc = "bound"
    /\ function = TheFunction
    /\ trace = <<"apply_explicit_vectorization", "specialize", "bind">>
    /\ cg = NoCode
    /\ error = NoError
    /\ self = NewSelf
    /\ index = NoIndex
    /\ CacheIdle

\* The call shape of a call of the compiled kernel, from the shapes of the
\* arguments passed.
CalculateCallShape ==
    /\ pc = "compiled"
    /\ dispatch.stage = "idle"
    /\ LET call_shape == calculate_call_shape(python, dispatch.shapes, bindings,
                                              context.call_dimensionality)
       IN  dispatch' = [dispatch EXCEPT
                           !.call_shape = call_shape,
                           !.stage = IF \E d \in 1..Len(call_shape) : call_shape[d] = RaisedDim
                                     THEN "raised" ELSE "shaped"]
    /\ UNCHANGED <<cg, error, self, index>>
    /\ UNCHANGED treeVars
    /\ UNCHANGED trace
    /\ UNCHANGED cacheVars

\* One thread of the call loads its element of every buffer.
LoadPrimal ==
    /\ dispatch.stage = "shaped"
    /\ \E call_id \in Coordinates(dispatch.call_shape) :
          dispatch' = [dispatch EXCEPT
                          !.call_id = call_id,
                          !.element = [n \in Nodes |->
                                          IF n \in Buffers(python, bindings)
                                          THEN load_primal(cg.call_data_structs, n, call_id)
                                          ELSE <<>>],
                          !.stage = "read"]
    /\ UNCHANGED <<cg, error, self, index>>
    /\ UNCHANGED treeVars
    /\ UNCHANGED trace
    /\ UNCHANGED cacheVars

NextDispatch ==
    \/ ApplyImplicitVectorization
    \/ CalculateCallDimensionality
    \/ CreateReturnValueBinding
    \/ FinalizeMappings
    \/ ValidateSpecialize
    \/ CalculateDifferentiability
    \/ GenerateCode
    \/ CompileKernel
    \/ CalculateCallShape
    \/ LoadPrimal

SpecDispatch == InitDispatch /\ [][NextDispatch]_vars

-----------------------------------------------------------------------------
(* Properties of the binding phases                                        *)

Range(s) == {s[i] : i \in 1..Len(s)}

\* The access table of the binding state machine, row by row.
TableAccess(mode, io, differentiable) ==
    CASE mode = "prim" /\ io = "inn" -> <<"read", "none">>
      [] mode = "prim" /\ io = "out" -> <<"write", "none">>
      [] mode = "prim" /\ io = "inout" -> <<"readwrite", "none">>
      [] mode = "bwds" /\ differentiable /\ io = "inn" -> <<"read", "write">>
      [] mode = "bwds" /\ differentiable /\ io = "out" -> <<"none", "read">>
      [] mode = "bwds" /\ differentiable /\ io = "inout" -> <<"read", "readwrite">>
      [] mode = "bwds" /\ ~differentiable /\ io = "inn" -> <<"read", "none">>
      [] mode = "bwds" /\ ~differentiable /\ io = "out" -> <<"none", "none">>
      [] mode = "bwds" /\ ~differentiable /\ io = "inout" -> <<"read", "none">>
      [] mode = "fwds" -> <<"none", "none">>

\* C1: after calculate_differentiability the access pair of every node is the
\* row of the table selected by the call mode, the node's IO type and its
\* differentiable flag; forward mode gives (none, none).
C1_AccessTable ==
    pc = "differentiated" =>
        \A n \in bindings :
            bound[n].access =
                TableAccess(context.call_mode, slang[n].io_type, bound[n].differentiable)

\* A backward call has reached a differentiable out node: (none, read).
C1_Witness ==
    /\ pc = "differentiated"
    /\ context.call_mode = "bwds"
    /\ \E n \in bindings :
          /\ slang[n].io_type = "out"
          /\ bound[n].differentiable
          /\ bound[n].access = <<"none", "read">>

\* C2: finalize_mappings gives every node that has no explicit mapping and
\* needs K <= D dimensions the ascending mapping [D-K, ..., D-1], which is
\* empty when K = 0.
C2_DefaultMapping ==
    [][(pc = "result_bound" /\ pc' = "finalized") =>
        \A n \in bindings :
            LET D == context.call_dimensionality
                K == bound[n].call_dimensionality
            IN  (~python[n].vector_mapping.valid /\ K # None /\ K <= D) =>
                    /\ python'[n].vector_mapping.valid
                    /\ python'[n].vector_mapping.dims = [j \in 1..K |-> D - K + j - 1]]_vars

\* A node needing one dimension of a two-dimensional call was given [1].
C2_Witness ==
    /\ pc = "finalized"
    /\ context.call_dimensionality = 2
    /\ \E n \in bindings :
          /\ bound[n].call_dimensionality = 1
          /\ python[n].vector_mapping.dims = <<1>>

\* C3 as stated: after finalize_mappings the mapping of every leaf is as long
\* as the leaf's call dimensionality, its entries lie in [0, D) and none
\* occurs twice.
C3_Original ==
    pc = "finalized" =>
        \A n \in get_input_list(bindings) :
            LET m == python[n].vector_mapping.dims
            IN  /\ Len(m) = bound[n].call_dimensionality
                /\ \A i \in 1..Len(m) : 0 <= m[i] /\ m[i] < context.call_dimensionality
                /\ IsInjective(m)

\* C3 amended: after finalize_mappings the entries of every leaf's mapping lie
\* in [0, D) and none occurs twice; a defaulted mapping is as long as the
\* leaf's call dimensionality, and an explicit mapping is kept as given, its
\* leaf's call dimensionality being its largest entry plus one, which is at
\* least its length.
C3_MappingBounds ==
    [][(pc = "result_bound" /\ pc' = "finalized") =>
        \A n \in get_input_list(bindings) :
            LET m == python'[n].vector_mapping.dims
                K == bound'[n].call_dimensionality
            IN  /\ \A i \in 1..Len(m) : 0 <= m[i] /\ m[i] < context.call_dimensionality
                /\ IsInjective(m)
                /\ Len(m) <= K
                /\ ~python[n].vector_mapping.valid => Len(m) = K
                /\ python[n].vector_mapping.valid =>
                      /\ m = python[n].vector_mapping.dims
                      /\ m # <<>> => \E i \in 1..Len(m) :
                                        /\ K = m[i] + 1
                                        /\ \A j \in 1..Len(m) : m[j] <= m[i]]_vars

\* A leaf with the explicit mapping (1,) has been finalized next to a leaf
\* with a defaulted mapping.
C3_Witness ==
    /\ pc = "finalized"
    /\ python[2].vector_mapping.dims = <<1>>
    /\ bound[2].call_dimensionality = 2
    /\ python[3].vector_mapping.dims = <<0, 1>>
    /\ bound[3].call_dimensionality = 2

C5_Differentiable ==
    pc = "differentiated" =>
        \A n \in bindings :
            bound[n].differentiable <=>
                (slang[n].no_diff = FALSE /\ slang[n].derivative = TRUE
                 /\ python[n].differentiable = TRUE)

\* The field a.x is differentiable and its parent a is not, because only the
\* parent's kernel side has no derivative type.
C5_Witness ==
    /\ pc = "differentiated"
    /\ bound[2].differentiable
    /\ ~bound[1].differentiable
    /\ ~slang[1].derivative /\ ~slang[1].no_diff /\ python[1].differentiable

-----------------------------------------------------------------------------
(* Properties of the call-data cache                                       *)

\* The step is thread t entering _build_call_data.
Enters(t) == tcall'[t] # tcall[t]

\* C6: once a call has succeeded for a signature, a later call with an equal
\* signature returns the same CallData object and constructs nothing,
\* whatever its arguments hold.
C6_CacheIdempotent ==
    [][\A t \in Threads :
        (Enters(t) /\ tcall'[t].sig \in DOMAIN built) =>
            /\ tres'[t] = [kind |-> "returned", obj |-> built[tcall'[t].sig]]
            /\ tpc'[t] = "idle"
            /\ started' = started
            /\ calldata' = calldata]_vars

\* Two calls with equal signatures and different data were returned the one
\* object of the one construction.
C6_Witness ==
    /\ Len(log) = 2
    /\ log[1].sig = log[2].sig
    /\ log[1].data = "d1" /\ log[2].data = "d2"
    /\ log[1].kind = "returned" /\ log[2].kind = "returned"
    /\ log[1].obj = log[2].obj
    /\ started[log[1].sig] = 1
    /\ Cardinality(DOMAIN calldata) = 1

\* C7: the cache changes only by the store that follows a construction that
\* returned; a construction that raises leaves the cache as it was, without
\* the signature, and a call whose signature is not cached constructs.
C7_InsertOnSuccess ==
    [][/\ CALL_DATA_CACHE' # CALL_DATA_CACHE =>
            /\ pc = "compiled"
            /\ \E t \in Threads :
                  /\ tpc[t] = "insert" /\ tres[t].kind = "constructed"
                  /\ CALL_DATA_CACHE' = (tcall[t].sig :> tres[t].obj) @@ CALL_DATA_CACHE
       /\ \A t \in Threads :
            /\ (tpc[t] = "construct" /\ pc' = "raised") =>
                  /\ CALL_DATA_CACHE' = CALL_DATA_CACHE
                  /\ tcall[t].sig \notin DOMAIN CALL_DATA_CACHE'
                  /\ tres'[t].kind = "raised"
                  /\ tpc'[t] = "idle"
            /\ (Enters(t) /\ tcall'[t].sig \notin DOMAIN CALL_DATA_CACHE) =>
                  tpc'[t] = "construct"]_vars

\* A construction raised, the cache was left without the signature and the
\* next call with that signature is constructing again.
C7_Witness ==
    /\ Len(log) = 1
    /\ log[1].kind = "raised"
    /\ tcall["t1"].id = 2
    /\ tcall["t1"].sig = log[1].sig
    /\ tpc["t1"] = "construct"
    /\ log[1].sig \notin DOMAIN CALL_DATA_CACHE

\* C8 as stated: no signature has its construction started more than once,
\* failed constructions included.
C8_Original == \A s \in DOMAIN started : started[s] <= 1

\* C8 amended: once a call has succeeded for a signature no construction is
\* started for that signature again, and at most one construction of a
\* signature succeeds; a construction that failed is started again by the
\* next call with that signature.
C8_OneSuccessfulRun ==
    [][/\ \A s \in DOMAIN built : s \in DOMAIN started /\ started'[s] = started[s]
       /\ \A t \in Threads :
            (tpc[t] = "construct" /\ tpc'[t] = "insert") => tcall[t].sig \notin DOMAIN built]_vars

\* A signature whose first construction failed was constructed a second
\* time, successfully.
C8_Witness ==
    /\ Len(log) = 2
    /\ log[1].sig = log[2].sig
    /\ log[1].kind = "raised"
    /\ log[2].kind = "returned"
    /\ started[log[1].sig] = 2
    /\ log[1].sig \in DOMAIN built

\* C9: the cache only grows and an entry keeps its CallData object.
C9_CacheMonotonic ==
    [][\A s \in DOMAIN CALL_DATA_CACHE :
        /\ s \in DOMAIN CALL_DATA_CACHE'
        /\ CALL_DATA_CACHE'[s] = CALL_DATA_CACHE[s]]_vars

\* A second signature was stored next to the first, which kept its object.
C9_Witness ==
    /\ Cardinality(DOMAIN CALL_DATA_CACHE) = 2
    /\ \E s \in DOMAIN CALL_DATA_CACHE : CALL_DATA_CACHE[s] = 1
    /\ \E s \in DOMAIN CALL_DATA_CACHE : CALL_DATA_CACHE[s] = 2

\* C10: a call is never served a CallData built for another call mode: the
\* object _build_call_data returns has the call mode of the chain it was
\* called through.
C10_ModeInSignature ==
    \A t \in Threads :
        tres[t].kind = "returned" =>
            calldata[tres[t].obj].call_mode = call_mode_of(tcall[t].chain)

-----------------------------------------------------------------------------
(* Properties of code generation and of the constructor                    *)

\* The phase the constructor ran last.
LastPhase == IF trace = <<>> THEN "" ELSE trace[Len(trace)]

\* The positions of the items emitted for node n.
ItemsOf(n) == {i \in 1..Len(cg.call_data_structs) : cg.call_data_structs[i].node = n}

\* C11: whenever code generation has run, every leaf of the tree, whatever
\* its depth, whose primal access is write or readwrite and whose host value
\* is not writable made generation raise, and nothing was emitted for it.
C11_NonWritableRejected ==
    LastPhase = "generate_code" =>
        \A n \in get_input_list(bindings) :
            (bound[n].access[1] \in {"write", "readwrite"} /\ ~python[n].writable) =>
                /\ pc = "raised"
                /\ ItemsOf(n) = {}

\* C12: whenever code generation has run, no store accessor was emitted for
\* a leaf whose host value is not writable, and a write or readwrite access
\* in either slot of such a leaf made generation raise; a phase before
\* generation that raised did so before any access was computed.
C12_NoStoreForNonWritable ==
    /\ LastPhase = "generate_code" =>
          \A n \in get_input_list(bindings) :
              ~python[n].writable =>
                  /\ \A i \in ItemsOf(n) : cg.call_data_structs[i].store = {}
                  /\ (\E k \in 1..2 : bound[n].access[k] \in {"write", "readwrite"}) =>
                        pc = "raised"
    /\ (pc = "raised" /\ LastPhase # "generate_code") =>
          \A n \in Nodes : bound[n].access = <<"none", "none">>

\* C13: a call that is not primal against an overload that is not
\* differentiable ends in the check that follows specialization: bind is
\* never called, no tree is built, no later phase runs and no code is
\* generated.
C13_DifferentiabilityGate ==
    (/\ function.class = "Function" /\ ~function.differentiable /\ context.call_mode # "prim"
     /\ pc \notin {"init", "start", "explicit"}) =>
        /\ pc = "raised"
        /\ error.raised
        /\ trace = <<"apply_explicit_vectorization", "specialize">>
        /\ bindings = {}
        /\ bound = [n \in Nodes |-> NewBound]
        /\ cg = NoCode
        /\ self = NewSelf

\* A backward call of a function that is not differentiable was refused.
C13_Witness ==
    /\ pc = "raised"
    /\ context.call_mode = "bwds"
    /\ ~function.differentiable
    /\ error.cause = "KernelGenException"
    /\ LastPhase = "specialize"

\* The phases of a construction, in the order of the statements of
\* CallData.__init__.
Phases ==
    <<"apply_explicit_vectorization", "specialize", "bind", "apply_implicit_vectorization",
      "calculate_call_dimensionality", "create_return_value_binding", "finalize_mappings",
      "validate_specialize", "calculate_differentiability", "generate_code">>

\* C14: the phases a construction has run are always the first phases of the
\* list, each once and in its order; a construction that reached code
\* generation ran all ten.
C14_PhaseOrder ==
    /\ Len(trace) <= Len(Phases)
    /\ trace = SubSeq(Phases, 1, Len(trace))
    /\ pc \in {"generated", "compiled"} => trace = Phases

\* A construction ran code generation after the nine phases before it and
\* compiled its kernel.
C14_Witness ==
    /\ pc = "compiled"
    /\ trace = Phases
    /\ Len(cg.call_data_structs) > 0

C16_ErrorCarriesPath ==
    (error.raised /\ error.origin # 0) => error.variable = path(error.origin)

\* The names of the children the tree has for node n.
child_names(n) == {"x" : c \in children(n) \cap bindings}

\* C17: in a tree that has been built, a node has children exactly when its
\* host side and its kernel side are both composite, and the names of its
\* children are the field names of the host side and of the kernel side.
C17_StructuralMirroring ==
    bindings # {} =>
        \A n \in bindings :
            /\ child_names(n) # {} <=> (python[n].fields.composite /\ slang[n].fields.composite)
            /\ child_names(n) # {} =>
                  /\ child_names(n) = python[n].fields.names
                  /\ child_names(n) = slang[n].fields.names

\* What gen_call_data_code emits for argument a when its own access pair is
\* replaced by the given one.
CompositeCode(access) ==
    gen_call_data_code(1, python, [bound EXCEPT ![1].access = access], bindings,
                       context.call_dimensionality, 0).items

\* C18 as stated: the code emitted for a composite is the same when only the
\* differentiable flag of the composite, and with it its own access pair, is
\* different.
C18_Original ==
    pc = "generated" =>
        \A d \in BOOLEAN :
            CompositeCode(_calculate_differentiability(context.call_mode, d, slang[1].io_type))
                = CompositeCode(bound[1].access)

\* C18 amended: the code emitted for a composite depends on its own access
\* pair only through which of the two slots are none: for every slot that is
\* not none it emits the aggregate load and the aggregate store, whatever
\* the access of that slot is, and for a slot that is none it emits neither.
C18_CompositeAccessors ==
    pc = "generated" =>
        /\ \A acc \in AccessType \X AccessType :
              (\A k \in 1..2 : (acc[k] = "none") <=> (bound[1].access[k] = "none")) =>
                  CompositeCode(acc) = CompositeCode(bound[1].access)
        /\ \E i \in ItemsOf(1) :
              /\ cg.call_data_structs[i].what = "struct"
              /\ cg.call_data_structs[i].load =
                    {PrimType[k] : k \in {j \in 1..2 : bound[1].access[j] # "none"}}
              /\ cg.call_data_structs[i].store = cg.call_data_structs[i].load

\* A composite with the access pair (read, none) got the aggregate accessors
\* of the primal slot only.
C18_Witness ==
    /\ pc = "generated"
    /\ context.call_mode = "bwds"
    /\ bound[1].access = <<"read", "none">>
    /\ \E i \in ItemsOf(1) :
          /\ cg.call_data_structs[i].what = "struct"
          /\ cg.call_data_structs[i].load = {"primal"}
          /\ cg.call_data_structs[i].store = {"primal"}

\* The records emitted for leaves bound to a differentiable N-dimensional
\* buffer.
NDRecords ==
    {i \in 1..Len(cg.call_data_structs) :
        /\ cg.call_data_structs[i].what = "record"
        /\ python[cg.call_data_structs[i].node].primal.kind = "NDDifferentiableBuffer"}

\* C19 as stated: the record has storage for a slot exactly when the slot's
\* access is not none, a load accessor only when the access includes read
\* and a store accessor only when it includes write.
C19_Original ==
    \A i \in NDRecords :
        LET item == cg.call_data_structs[i]
            access == bound[item.node].access
        IN  /\ item.storage = SlotsWhere(access, {"read", "write", "readwrite"})
            /\ item.load \subseteq SlotsWhere(access, {"read", "readwrite"})
            /\ item.store \subseteq SlotsWhere(access, {"write", "readwrite"})

\* C19 amended: the record has storage and a load accessor for a slot
\* exactly when the slot's access is not none, a write-only slot included,
\* and a store accessor exactly when the access is write or readwrite; a
\* slot with access none contributes nothing.
C19_RecordStorage ==
    \A i \in NDRecords :
        LET item == cg.call_data_structs[i]
            access == bound[item.node].access
        IN  \A k \in 1..2 :
                /\ PrimType[k] \in item.storage <=> access[k] # "none"
                /\ PrimType[k] \in item.load <=> access[k] # "none"
                /\ PrimType[k] \in item.store <=> access[k] \in {"write", "readwrite"}

\* A differentiable buffer read in a backward call: storage and loads for
\* both slots, a store for the derivative only.
C19_Witness ==
    \E i \in NDRecords :
        /\ bound[cg.call_data_structs[i].node].access = <<"read", "write">>
        /\ cg.call_data_structs[i].storage = {"primal", "derivative"}
        /\ cg.call_data_structs[i].load = {"primal", "derivative"}
        /\ cg.call_data_structs[i].store = {"derivative"}

\* C20: the subscript generated from a transform has one component for each
\* entry, in the order of the entries; the component of an integer entry m
\* reads call coordinate m, the component of a None entry is the constant 0,
\* and nothing but the call coordinates and constants occurs in it.
C20_Subscript ==
    index.subscript # <<>> =>
        /\ index.subscript[1].tok = "[{"
        /\ index.subscript[Len(index.subscript)].tok = "}]"
        /\ Len(Components(index.subscript)) = Len(index.transform)
        /\ \A i \in 1..Len(index.transform) :
              LET c == Components(index.subscript)[i]
                  m == index.transform[i]
              IN  /\ Len(c) = 1
                  /\ c[1].tok \in {"0", "context.call_id"}
                  /\ m = NoneEntry => c[1].tok = "0"
                  /\ m # NoneEntry => c[1] = Tok("context.call_id", m)
                  /\ Value(c, index.call_id) = IF m = NoneEntry THEN 0 ELSE index.call_id[m + 1]

\* The transform (None, 1) became [{0,context.call_id[1]}].
C20_Witness ==
    /\ index.transform = <<NoneEntry, 1>>
    /\ index.call_id[2] = 1
    /\ index.subscript = <<Tok("[{", 0), Tok("0", 0), Tok(",", 0), Tok("context.call_id", 1),
                           Tok("}]", 0)>>

\* C21 as stated: every argument of the trampoline has the direction keyword
\* of its kernel parameter's IO type, and is annotated no_diff exactly when
\* the kernel parameter is marked no-derivative.
C21_Original ==
    \A i \in 1..Len(cg.trampoline) :
        LET arg == cg.trampoline[i].arg
            sl == slang[cg.trampoline[i].node]
        IN  /\ Len(arg) \in {3, 4}
            /\ arg[Len(arg) - 2] = (CASE sl.io_type = "inn" -> "in"
                                      [] sl.io_type = "out" -> "out"
                                      [] sl.io_type = "inout" -> "inout")
            /\ (Len(arg) = 4 /\ arg[1] = "no_diff") <=> sl.no_diff

\* C21 amended: every argument of the trampoline has the direction keyword
\* of its kernel parameter's IO type before its type and its name, and is
\* annotated no_diff exactly when the bound variable is not differentiable:
\* when the kernel parameter is marked no-derivative, and also when its type
\* has no derivative or the host value is not differentiable.
C21_TrampolineModifiers ==
    \A i \in 1..Len(cg.trampoline) :
        LET arg == cg.trampoline[i].arg
            n == cg.trampoline[i].node
        IN  /\ Len(arg) \in {3, 4}
            /\ arg[Len(arg)] = path(n)
            /\ arg[Len(arg) - 2] = (CASE slang[n].io_type = "inn" -> "in"
                                      [] slang[n].io_type = "out" -> "out"
                                      [] slang[n].io_type = "inout" -> "inout")
            /\ (Len(arg) = 4 /\ arg[1] = "no_diff") <=>
                    (slang[n].no_diff \/ ~slang[n].derivative \/ ~python[n].differentiable)
            /\ slang[n].no_diff => (Len(arg) = 4 /\ arg[1] = "no_diff")

\* A trampoline with an argument annotated because its kernel parameter is
\* no_diff, one annotated only because its host value is not
\* differentiable, and an out argument that is not annotated.
C21_Witness ==
    /\ pc = "generated"
    /\ Len(cg.trampoline) = 3
    /\ slang[1].no_diff /\ cg.trampoline[1].arg[1] = "no_diff"
    /\ ~slang[3].no_diff /\ ~python[3].differentiable
    /\ cg.trampoline[2].arg[1] = "no_diff"
    /\ cg.trampoline[3].arg = <<"out", "float", "_result">>

\* C25: a constructor handed a chain whose first entry is not a Function
\* raises a ValueError that reports the KernelGenException of line 79, and
\* the handler that makes it does not itself fail.
C25_NotAFunction ==
    (function.class # "Function" /\ pc # "init") =>
        /\ pc = "raised"
        /\ error.raised
        /\ error.cause = "KernelGenException"
        /\ error.type = "ValueError"

\* C26: in the kernel tree of the overload that specialize found, whatever a
\* composite parameter has under the name x, a field of a struct or a
\* component of a vector, has the IO type and the no_diff flag of the
\* parameter.
C26_ChildInheritsModifiers ==
    (/\ "specialize" \in Range(trace)
     /\ slang[1].fields.composite /\ "x" \in slang[1].fields.names) =>
        /\ slang[2].io_type = slang[1].io_type
        /\ slang[2].no_diff = slang[1].no_diff

\* The leaf reached ValueRefType.gen_calldata: it emitted its alias, or one
\* of its asserts failed.
reached_gen_calldata(n) ==
    \/ ItemsOf(n) # {}
    \/ error.raised /\ error.origin = n /\ error.cause = "AssertionError"

\* C27: a leaf bound to a ValueRef that reaches gen_calldata has a primal
\* access other than none and the derivative access none, in every call mode
\* and for every IO type, so neither assert fails.
C27_ValueRefAsserts ==
    LastPhase = "generate_code" =>
        \A n \in get_input_list(bindings) :
            (python[n].primal.kind = "ValueRef" /\ reached_gen_calldata(n)) =>
                /\ bound[n].access[1] # "none"
                /\ bound[n].access[2] = "none"
                /\ ~(error.raised /\ error.origin = n)

-----------------------------------------------------------------------------
(* Properties of _build_call_data under concurrent callers                 *)

\* The thread is between its cache miss and its store.
constructing(pcs, t) == pcs[t] \in {"construct", "insert"}

\* C24 as stated: at most one construction is in flight for a signature,
\* all callers that were returned an object for a signature were returned
\* the same one, and an entry of the cache is never replaced.
C24_Original ==
    [][/\ \A t, u \in Threads :
            (constructing(tpc', t) /\ constructing(tpc', u) /\ tcall'[t].sig = tcall'[u].sig)
                => t = u
       /\ \A i, j \in 1..Len(log') :
            (log'[i].sig = log'[j].sig /\ log'[i].kind = "returned" /\ log'[j].kind = "returned")
                => log'[i].obj = log'[j].obj
       /\ \A s \in DOMAIN CALL_DATA_CACHE :
            s \in DOMAIN CALL_DATA_CACHE' /\ CALL_DATA_CACHE'[s] = CALL_DATA_CACHE[s]]_vars

\* C24 amended: nothing serializes the callers. A caller that finds its
\* signature in the cache is returned the cached object and constructs
\* nothing; a caller that does not find it starts its own construction,
\* whatever the other callers are doing; a construction makes a new object;
\* and the caller stores the object it built under its signature, replacing
\* an entry stored meanwhile, and is returned that object.
C24_EveryMissConstructs ==
    [][\A t \in Threads :
        /\ (Enters(t) /\ tcall'[t].sig \in DOMAIN CALL_DATA_CACHE) =>
              /\ tres'[t] = [kind |-> "returned", obj |-> CALL_DATA_CACHE[tcall'[t].sig]]
              /\ tpc'[t] = "idle"
              /\ started' = started
              /\ calldata' = calldata
        /\ (Enters(t) /\ tcall'[t].sig \notin DOMAIN CALL_DATA_CACHE) =>
              tpc'[t] = "construct"
        /\ (tpc[t] = "construct" /\ tpc'[t] = "insert") =>
              /\ tres'[t].obj \notin DOMAIN calldata
              /\ tres'[t].obj \in DOMAIN calldata'
        /\ (tpc[t] = "insert" /\ tpc'[t] = "idle") =>
              /\ DOMAIN CALL_DATA_CACHE' = DOMAIN CALL_DATA_CACHE \cup {tcall[t].sig}
              /\ CALL_DATA_CACHE'[tcall[t].sig] = tres[t].obj
              /\ \A s \in DOMAIN CALL_DATA_CACHE :
                    s # tcall[t].sig => CALL_DATA_CACHE'[s] = CALL_DATA_CACHE[s]
              /\ tres'[t] = [kind |-> "returned", obj |-> tres[t].obj]]_vars

\* Two callers with one signature overlapped: both constructed, each was
\* returned its own object, and the cache holds the one stored last.
C24_Witness ==
    /\ Len(log) = 2
    /\ log[1].sig = log[2].sig
    /\ log[1].kind = "returned" /\ log[2].kind = "returned"
    /\ log[1].obj # log[2].obj
    /\ started[log[1].sig] = 2
    /\ CALL_DATA_CACHE[log[1].sig] = log[2].obj
    /\ tcall["t1"].sig = tcall["t2"].sig
    /\ tcall["t1"].id # tcall["t2"].id

-----------------------------------------------------------------------------
(* Properties of finalize_mappings and of the access pairs                 *)

\* C28: finalize_mappings leaves the mapping of every node that has a valid
\* one, the call dimensionality of every node that has one, and the vector
\* type, the access pair and the differentiable flag of every node as they
\* were; nothing but a missing mapping and a missing dimensionality is set.
C28_FinalizeFrame ==
    [][(pc = "result_bound" /\ pc' = "finalized") =>
        /\ slang' = slang
        /\ \A n \in Nodes :
              /\ python[n].vector_mapping.valid =>
                    python'[n].vector_mapping = python[n].vector_mapping
              /\ bound[n].call_dimensionality # None =>
                    bound'[n].call_dimensionality = bound[n].call_dimensionality
              /\ python'[n] = [python[n] EXCEPT !.vector_mapping = python'[n].vector_mapping]
              /\ bound'[n] = [bound[n] EXCEPT !.call_dimensionality =
                                                bound'[n].call_dimensionality]]_vars

\* finalize_mappings has run over a tree in which a.x kept the explicit
\* mapping (1, 0) it came with and b was given the default one.
C28_Witness ==
    /\ pc = "finalized"
    /\ python[2].vector_mapping.dims = <<1, 0>>
    /\ python[2].vector_type = reduce_type(python[2].primal, 2)
    /\ bound[2].call_dimensionality = 2
    /\ python[3].vector_mapping = [valid |-> TRUE, dims |-> <<1>>]
    /\ bound[3].call_dimensionality = 1

\* C29: in a construction that has not raised, after implicit vectorization
\* every node of the tree, the injected _result node included, has a vector
\* type and a call dimensionality, and after finalize_mappings every node
\* has a valid mapping: the asserts of lines 159 and 172 hold.
C29_NoImplicitLeft ==
    /\ pc \in {"vectorized", "dimensioned", "result_bound", "finalized", "validated",
               "differentiated", "generated", "compiled"} =>
          \A n \in bindings :
              /\ python[n].vector_type \notin {NoType, RaisedType}
              /\ bound[n].call_dimensionality \notin {None, RaisedDim}
    /\ pc \in {"finalized", "validated", "differentiated", "generated", "compiled"} =>
          \A n \in bindings : python[n].vector_mapping.valid

\* A tree with an injected _result node was finalized: the node got the
\* kernel's return type as its vector type and, needing no dimension, the
\* empty mapping.
C29_Witness ==
    /\ pc = "finalized"
    /\ ResultNode \in bindings
    /\ python[ResultNode].vector_type = slang_primal(slang[ResultNode])
    /\ bound[ResultNode].call_dimensionality = 0
    /\ python[ResultNode].vector_mapping = [valid |-> TRUE, dims |-> <<>>]
    /\ context.call_dimensionality = 2

\* C30: after calculate_differentiability the derivative access of a node
\* is other than none only in a backward call and only when the node is
\* differentiable, and in a backward call no primal access is write or
\* readwrite.
C30_DerivativeAccess ==
    pc = "differentiated" =>
        \A n \in bindings :
            /\ bound[n].access[2] # "none" =>
                  (context.call_mode = "bwds" /\ bound[n].differentiable)
            /\ context.call_mode = "bwds" => bound[n].access[1] \in {"none", "read"}

\* A backward call reached a differentiable inout node, (read, readwrite),
\* next to a node that is not differentiable and has no derivative access.
C30_Witness ==
    /\ pc = "differentiated"
    /\ context.call_mode = "bwds"
    /\ \E n \in bindings :
          /\ slang[n].io_type = "inout"
          /\ bound[n].differentiable
          /\ bound[n].access = <<"read", "readwrite">>
    /\ \E n \in bindings : ~bound[n].differentiable /\ bound[n].access[2] = "none"

-----------------------------------------------------------------------------
(* Properties of a call of the kernel                                      *)

\* The mapping takes the dimensions of the argument to the call dimensions
\* 0..k-1, each to a different one.
IsPermutation(m) == Range(m) = 0..(Len(m) - 1)

C23_ElementDimensions ==
    LET s == dispatch.shapes[2]
        m == python[2].vector_mapping
    IN  (/\ 2 \in bindings
         /\ slang[2].primal = "float3"
         /\ m.valid
         /\ Len(m.dims) = Len(s)
         /\ IsPermutation(m.dims)
         /\ bound[2].call_dimensionality # None) =>
            /\ bound[2].call_dimensionality = Len(s) - element_dimensions("float3")
            /\ (/\ s = <<3, 2>>
                /\ m.dims = <<1, 0>>
                /\ dispatch.shapes[3] = <<2>>
                /\ dispatch.stage = "shaped") => dispatch.call_shape = <<2>>

====
